---- MODULE Spec2Model ----
(***************************************************************************)
(* Model of the EmotiBit -> You:Quantified converter, emotibit_yq_app.py.  *)
(*                                                                         *)
(* Text (file names, tags, labels, CSV fields) is a sequence of one-       *)
(* character strings, so that lower(), find(), startswith(), splitext(),   *)
(* replace(), int() and float() are computed character by character as     *)
(* the Python code computes them.                                          *)
(***************************************************************************)
EXTENDS Integers, Sequences, FiniteSets, TLC

VARIABLES
    pc,         \* position of the main logic (lines 297-349)
    walk,       \* os.walk enumeration order of the extracted files
    tmp,        \* working storage that exists on disk (paths below tmpdir)
    sessions,   \* result of find_emotibit_sessions
    i,          \* number of sessions already converted by the for loop
    parsed,     \* metadata documents handed to load_emotibit_json so far
    out,        \* files below YQ_out: relative path -> content
    final_zip,  \* bytes handed to st.download_button (entries), or NoZip
    ui,         \* user-facing messages shown by the run
    doc,        \* reshaper input: the metadata document
    line,       \* reshaper input: the measurement line read last
    emitted,    \* Long Records emitted for `line`
    records,    \* Long Records accumulated over the measurement file
    used,       \* sample fields of the measurement file read so far
    df,         \* the wide table returned by parse_emotibit_csv, or NoDf
    walk2,      \* second run of the same archive: its enumeration order
    result1,    \* outcome of the first run
    result2     \* outcome of the second run

vars == <<pc, walk, tmp, sessions, i, parsed, out, final_zip, ui,
          doc, line, emitted, records, used, df, walk2, result1, result2>>

mainVars == <<pc, walk, tmp, sessions, i, parsed, out, final_zip, ui>>
csvVars == <<doc, line, emitted, records, used, df>>
runVars == <<walk2, result1, result2>>

(***************************************************************************)
(* Bounds of the model.                                                    *)
(***************************************************************************)
MaxFiles == 3    \* files in the uploaded archive
MaxVals == 2     \* sample fields on one measurement line
MaxFields == 3   \* sample fields (or field-less lines) in one measurement file

(***************************************************************************)
(* Python str operations on character sequences.                           *)
(***************************************************************************)
LowerChar(c) ==
    CASE c = "A" -> "a" [] c = "B" -> "b" [] c = "C" -> "c" [] c = "D" -> "d"
      [] c = "E" -> "e" [] c = "F" -> "f" [] c = "I" -> "i" [] c = "J" -> "j"
      [] c = "N" -> "n" [] c = "O" -> "o" [] c = "S" -> "s" [] c = "U" -> "u"
      [] c = "V" -> "v" [] c = "X" -> "x" [] c = "Y" -> "y"
      [] OTHER -> c

Lower(s) == [k \in 1..Len(s) |-> LowerChar(s[k])]

StartsWith(s, p) == Len(p) <= Len(s) /\ SubSeq(s, 1, Len(p)) = p

EndsWith(s, p) == Len(p) <= Len(s) /\ SubSeq(s, Len(s) - Len(p) + 1, Len(s)) = p

\* str.find: 0-based index of the first occurrence, -1 when there is none
Find(s, p) ==
    LET hits == {k \in 0..(Len(s) - Len(p)) : SubSeq(s, k + 1, k + Len(p)) = p}
    IN  IF hits = {} THEN -1 ELSE CHOOSE k \in hits : \A m \in hits : k <= m

Contains(s, p) == Find(s, p) # -1

RECURSIVE Remove(_, _)
\* str.replace(c, ""): every occurrence of the character removed
Remove(s, c) ==
    IF s = <<>> THEN <<>>
    ELSE (IF Head(s) = c THEN <<>> ELSE <<Head(s)>>) \o Remove(Tail(s), c)

\* str.replace(a, b) for single characters
ReplaceChar(s, a, b) == [k \in 1..Len(s) |-> IF s[k] = a THEN b ELSE s[k]]

\* os.path.splitext(basename)[0]: cut at the last dot unless only dots precede it
SplitextStem(name) ==
    LET dots == {k \in 1..Len(name) : name[k] = "."}
    IN  IF dots = {} THEN name
        ELSE LET d == CHOOSE k \in dots : \A m \in dots : m <= k
             IN  IF \E k \in 1..(d - 1) : name[k] # "."
                 THEN SubSeq(name, 1, d - 1)
                 ELSE name

INFO == <<"_", "i", "n", "f", "o">>
JSON == <<".", "j", "s", "o", "n">>
CSV == <<".", "c", "s", "v">>

(***************************************************************************)
(* The extracted archive.  A file is its os.walk root (relative to the     *)
(* extraction directory) and its basename; what a path holds is fixed by   *)
(* the archive and read with ReadJson / ReadCsv further down.              *)
(***************************************************************************)
TOP == <<>>
MACOSX == <<"_", "_", "M", "A", "C", "O", "S", "X">>

J_d_info == [root |-> TOP, name |-> <<"d">> \o INFO \o JSON]
J_d_INFO1 == [root |-> TOP, name |-> <<"d", "_", "I", "N", "F", "O", "1">> \o JSON]
J_info == [root |-> TOP, name |-> INFO \o JSON]
J_dcsv_info == [root |-> TOP, name |-> <<"d">> \o CSV \o INFO \o JSON]
J_d_info2 == [root |-> TOP, name |-> <<"d">> \o INFO \o <<"2">> \o JSON]
J_d == [root |-> TOP, name |-> <<"d">> \o JSON]
M_d == [root |-> TOP, name |-> <<"d">> \o CSV]
M_d_1 == [root |-> TOP, name |-> <<"d", "_", "1">> \o CSV]
M_d_2 == [root |-> TOP, name |-> <<"d", "_", "2", ".", "C", "S", "V">>]
M_shadow == [root |-> TOP, name |-> <<".", "_", "d">> \o CSV]
M_macosx == [root |-> MACOSX, name |-> <<"d">> \o CSV]

Universe ==
    {J_d_info, J_d_INFO1, J_info, J_dcsv_info, J_d_info2, J_d,
     M_d, M_d_1, M_d_2, M_shadow, M_macosx}

\* os.walk is top-down: the files of the top directory come before those of
\* a sub-directory; within one directory the order is the file system's.
IsWalkOrder(w) ==
    /\ \A a, b \in 1..Len(w) : a # b => w[a] # w[b]
    /\ \A a, b \in 1..Len(w) : (a < b /\ w[b].root = TOP) => w[a].root = TOP

Walks ==
    UNION {{w \in [1..n -> Universe] : IsWalkOrder(w)} : n \in 0..MaxFiles}

(***************************************************************************)
(* 4. Robust matcher: find_emotibit_sessions                               *)
(***************************************************************************)
\* lines 227-231: resource-fork directories and dot-underscore files
Skipped(f) == Contains(f.root, MACOSX) \/ StartsWith(f.name, <<".", "_">>)

\* line 233
IsJsonCandidate(f) ==
    ~Skipped(f) /\ EndsWith(Lower(f.name), JSON) /\ Contains(Lower(f.name), INFO)

\* line 235 (elif)
IsCsvCandidate(f) ==
    ~Skipped(f) /\ ~IsJsonCandidate(f) /\ EndsWith(Lower(f.name), CSV)

all_jsons(w) == SelectSeq(w, IsJsonCandidate)
all_csvs(w) == SelectSeq(w, IsCsvCandidate)

\* lines 240-244: -1 when the stem holds no marker
InfoIndex(f) == Find(Lower(SplitextStem(f.name)), INFO)
base_key(f) == SubSeq(SplitextStem(f.name), 1, InfoIndex(f))

\* line 250
Matches(csv, key) == StartsWith(SplitextStem(csv.name), key)

RECURSIVE candidates(_, _)
\* lines 247-251
candidates(csvs, key) ==
    IF csvs = <<>> THEN <<>>
    ELSE (IF Matches(Head(csvs), key) THEN <<Head(csvs)>> ELSE <<>>)
         \o candidates(Tail(csvs), key)

RECURSIVE InsertByLen(_, _)
InsertByLen(sorted, f) ==
    IF sorted = <<>> THEN <<f>>
    ELSE IF Len(f.name) < Len(Head(sorted).name)
         THEN <<f>> \o sorted
         ELSE <<Head(sorted)>> \o InsertByLen(Tail(sorted), f)

RECURSIVE SortByLen(_)
\* line 254: list.sort is stable
SortByLen(fs) ==
    IF fs = <<>> THEN <<>>
    ELSE InsertByLen(SortByLen(SubSeq(fs, 1, Len(fs) - 1)), fs[Len(fs)])

\* lines 254-255
PickUnsorted(cands) == cands[1]
PickCsv(cands) == SortByLen(cands)[1]

RECURSIVE SessionsFrom(_, _)
\* lines 239-256
SessionsFrom(jsons, csvs) ==
    IF jsons = <<>> THEN <<>>
    ELSE LET j == Head(jsons)
             cands == candidates(csvs, base_key(j))
             rest == SessionsFrom(Tail(jsons), csvs)
         IN  IF InfoIndex(j) = -1 \/ cands = <<>>
             THEN rest
             ELSE <<[json |-> j, csv |-> PickCsv(cands), name |-> base_key(j)]>> \o rest

find_emotibit_sessions(w) == SessionsFrom(all_jsons(w), all_csvs(w))

(***************************************************************************)
(* 1. JSON parsing: load_emotibit_json                                     *)
(*                                                                         *)
(* A metadata document is the sequence of the "info" maps of its records.  *)
(* A key of a map is either absent (None) or present with a value.         *)
(***************************************************************************)
None == [some |-> FALSE, v |-> <<>>]
Some(x) == [some |-> TRUE, v |-> x]
NoRate == [some |-> FALSE, v |-> 0]
Rate(r) == [some |-> TRUE, v |-> r]

\* Python's `a or b` on optional strings: a missing key and "" are both falsy
Truthy(o) == o.some /\ o.v # <<>>
OrElse(o, dflt) == IF Truthy(o) THEN o.v ELSE dflt

UNKNOWN_DEVICE ==
    <<"U", "n", "k", "n", "o", "w", "n", "D", "e", "v", "i", "c", "e">>
CHANNEL == <<"C", "h", "a", "n", "n", "e", "l">>

\* lines 64-65
JsonRaises(data) == data = <<>>

\* lines 69-74
device_name(raw_meta) ==
    OrElse(raw_meta.name, OrElse(raw_meta.source_id, OrElse(raw_meta.type, UNKNOWN_DEVICE)))

\* lines 75-79
device_id(raw_meta) ==
    OrElse(raw_meta.device_id,
           OrElse(raw_meta.source_id, ReplaceChar(device_name(raw_meta), " ", "_")))

\* lines 67, 81-83
device_meta(data) ==
    [raw |-> data[1], device_name |-> device_name(data[1]), device_id |-> device_id(data[1])]

\* line 88
StreamName(info) ==
    IF info.name.some THEN info.name.v
    ELSE IF info.type.some THEN info.type.v ELSE CHANNEL

\* line 93
LabelKeepSpaces(name, tag) == name \o <<"_">> \o tag
Label(name, tag) == Remove(name \o <<"_">> \o tag, " ")

RECURSIVE AddTags(_, _, _)
\* lines 92-99: a later tag of the same name replaces the earlier entry
AddTags(chans, info, tags) ==
    IF tags = <<>> THEN chans
    ELSE AddTags((Head(tags) :> [label |-> Label(StreamName(info), Head(tags)),
                                 nominal_srate |-> info.nominal_srate])
                 @@ chans, info, Tail(tags))

RECURSIVE AddStreams(_, _)
\* lines 86-99
AddStreams(chans, entries) ==
    IF entries = <<>> THEN chans
    ELSE AddStreams(AddTags(chans, Head(entries), Head(entries).typeTags), Tail(entries))

NoChannels == [t \in {} |-> 0]

\* lines 85-101
channels(data) == AddStreams(NoChannels, Tail(data))

(***************************************************************************)
(* 2. CSV parsing: parse_emotibit_csv                                      *)
(*                                                                         *)
(* A measurement line is the list `parts` of its comma-separated, stripped *)
(* fields.  A sample value is kept in tenths, a cell of the wide table as  *)
(* a reduced fraction of tenths, a time in milliseconds.                   *)
(***************************************************************************)
DigitVal(c) ==
    CASE c = "0" -> 0 [] c = "1" -> 1 [] c = "2" -> 2 [] c = "3" -> 3
      [] c = "4" -> 4 [] c = "5" -> 5 [] c = "6" -> 6 [] c = "7" -> 7
      [] c = "8" -> 8 [] c = "9" -> 9 [] OTHER -> -1

IsDigits(s) == s # <<>> /\ \A k \in 1..Len(s) : DigitVal(s[k]) >= 0

RECURSIVE DigitsVal(_)
DigitsVal(s) ==
    IF s = <<>> THEN 0
    ELSE 10 * DigitsVal(SubSeq(s, 1, Len(s) - 1)) + DigitVal(s[Len(s)])

Unsigned(s) == IF s # <<>> /\ Head(s) \in {"-", "+"} THEN Tail(s) ELSE s
Sign(s) == IF s # <<>> /\ Head(s) = "-" THEN -1 ELSE 1

\* int(s): an optional sign and decimal digits, ValueError otherwise
IsInt(s) == IsDigits(Unsigned(s))
IntOf(s) == Sign(s) * DigitsVal(Unsigned(s))

\* float(s) on decimal numerals with at most one fractional digit
IsFloat(s) ==
    LET u == Unsigned(s)
        d == Find(u, <<".">>)
    IN  IF d = -1 THEN IsDigits(u)
        ELSE /\ Len(u) = d + 2
             /\ IsDigits(SubSeq(u, 1, d))
             /\ DigitVal(u[Len(u)]) >= 0

\* the value of float(s), in tenths
FloatOf(s) ==
    LET u == Unsigned(s)
        d == Find(u, <<".">>)
    IN  IF d = -1 THEN Sign(s) * 10 * DigitsVal(u)
        ELSE Sign(s) * (10 * DigitsVal(SubSeq(u, 1, d)) + DigitVal(u[Len(u)]))

\* int(x / y) for a float quotient: truncation toward zero
TruncDiv(x, y) ==
    LET ax == IF x < 0 THEN -x ELSE x
        ay == IF y < 0 THEN -y ELSE y
    IN  IF (x < 0) = (y < 0) THEN ax \div ay ELSE -(ax \div ay)

\* the recording start "1970-01-01_00-00-05-000000" and a malformed one
CREATED_AT ==
    <<"1", "9", "7", "0", "-", "0", "1", "-", "0", "1", "_", "0", "0", "-",
      "0", "0", "-", "0", "5", "-", "0", "0", "0", "0", "0", "0">>
CREATED_BAD == <<"1", "9", "7", "0">>

\* line 109: datetime.strptime(s, "%Y-%m-%d_%H-%M-%S-%f"), then .timestamp()
\* in milliseconds (UTC); any other string of the model raises ValueError
StrptimeRaises(s) == s # CREATED_AT
StrptimeMs(s) == 5000

\* lines 107-109: created_at = device_meta.get("created_at"); falsy -> no base
HasBase(created_at) == Truthy(created_at)
CsvRaises(created_at) == HasBase(created_at) /\ StrptimeRaises(created_at.v)

\* lines 139-143
base_ts_ms(created_at, system_ms) ==
    IF HasBase(created_at) THEN StrptimeMs(created_at.v) + system_ms ELSE system_ms

\* Python's values[:n]: a negative n counts from the end
Slice(values, n) ==
    IF n >= 0 THEN SubSeq(values, 1, IF n < Len(values) THEN n ELSE Len(values))
    ELSE SubSeq(values, 1, IF Len(values) + n > 0 THEN Len(values) + n ELSE 0)

DEFAULT_SRATE == 25

\* line 137: `or 25.0` replaces a missing rate and a zero rate
EffectiveRate(ch_meta) ==
    IF ch_meta.nominal_srate.some /\ ch_meta.nominal_srate.v # 0
    THEN ch_meta.nominal_srate.v ELSE DEFAULT_SRATE

\* line 150: int((idx * 1.0 / sr) * 1000.0)
SampleOffsetRounded(idx, sr) == TruncDiv(2 * idx * 1000 + sr, 2 * sr)
SampleOffset(idx, sr) == TruncDiv(idx * 1000, sr)

\* line 128-130
n_samples(parts) == IF IsInt(parts[3]) THEN IntOf(parts[3]) ELSE 1

RECURSIVE SampleRecords(_, _, _, _, _)
\* lines 145-151, from 0-based index idx on
SampleRecords(vals, idx, base, sr, tag) ==
    IF idx >= Len(vals) THEN <<>>
    ELSE (IF IsFloat(vals[idx + 1])
          THEN <<[timestamp |-> base + SampleOffset(idx, sr), tag |-> tag,
                  value |-> FloatOf(vals[idx + 1])]>>
          ELSE <<>>)
         \o SampleRecords(vals, idx + 1, base, sr, tag)

\* lines 117-151: the Long Records one line appends
LineRecords(parts, created_at, chans) ==
    IF Len(parts) < 7 THEN <<>>
    ELSE IF ~IsInt(parts[1]) THEN <<>>
    ELSE IF parts[4] \notin DOMAIN chans THEN <<>>
    ELSE SampleRecords(Slice(SubSeq(parts, 7, Len(parts)), n_samples(parts)), 0,
                       base_ts_ms(created_at, IntOf(parts[1])),
                       EffectiveRate(chans[parts[4]]), parts[4])

\* code points of the characters that occur in tags
CharCode(c) ==
    CASE c = " " -> 32 [] c = "A" -> 65 [] c = "B" -> 66 [] c = "_" -> 95
      [] OTHER -> 0

RECURSIVE StrLess(_, _)
\* Python's < on str
StrLess(a, b) ==
    IF b = <<>> THEN FALSE
    ELSE IF a = <<>> THEN TRUE
    ELSE IF Head(a) = Head(b) THEN StrLess(Tail(a), Tail(b))
    ELSE CharCode(Head(a)) < CharCode(Head(b))

RECURSIVE SortInts(_)
SortInts(S) ==
    IF S = {} THEN <<>>
    ELSE LET m == CHOOSE x \in S : \A y \in S : x <= y
         IN  <<m>> \o SortInts(S \ {m})

RECURSIVE SortStrs(_)
SortStrs(S) ==
    IF S = {} THEN <<>>
    ELSE LET m == CHOOSE x \in S : \A y \in S \ {x} : StrLess(x, y)
         IN  <<m>> \o SortStrs(S \ {m})

RECURSIVE Gcd(_, _)
Gcd(a, b) == IF b = 0 THEN a ELSE Gcd(b, a % b)

Abs(x) == IF x < 0 THEN -x ELSE x

\* a cell of the wide table: NaN, or the fraction num/den (den > 0) in tenths
NaN == [num |-> 0, den |-> 0]
Frac(num, den) ==
    LET g == Gcd(Abs(num), den) IN [num |-> num \div g, den |-> den \div g]

RECURSIVE SumValues(_)
SumValues(rs) == IF rs = <<>> THEN 0 ELSE Head(rs).value + SumValues(Tail(rs))

GroupOf(recs, ts, tag) ==
    SelectSeq(recs, LAMBDA r : r.timestamp = ts /\ r.tag = tag)

\* aggfunc of pivot_table, line 158
AggSum(group) == IF group = <<>> THEN NaN ELSE Frac(SumValues(group), 1)
AggMean(group) ==
    IF group = <<>> THEN NaN ELSE Frac(SumValues(group), Len(group))

TIMESTAMP == <<"t", "i", "m", "e", "s", "t", "a", "m", "p">>
TIME == <<"T", "i", "m", "e">>

\* index of the pivot: one entry per distinct timestamp, sorted (line 159)
PivotIndex(recs) == SortInts({recs[k].timestamp : k \in 1..Len(recs)})

\* columns of the pivot: the tags that occur, in sorted order
PivotTags(recs) == SortStrs({recs[k].tag : k \in 1..Len(recs)})

\* lines 166-170
Renamed(tag, chans) == IF tag \in DOMAIN chans THEN chans[tag].label ELSE tag

\* lines 153-172
Pivot(recs, chans) ==
    IF recs = <<>> THEN [columns |-> <<TIMESTAMP>>, rows |-> <<>>]
    ELSE LET idx == PivotIndex(recs)
             tags == PivotTags(recs)
         IN  [columns |-> <<TIMESTAMP, TIME>>
                          \o [k \in 1..Len(tags) |-> Renamed(tags[k], chans)],
              rows |-> [r \in 1..Len(idx) |->
                         [timestamp |-> idx[r],
                          Time |-> idx[r] - idx[1],
                          cells |-> [k \in 1..Len(tags) |->
                                      AggMean(GroupOf(recs, idx[r], tags[k]))]]]]

RECURSIVE FileRecords(_, _, _)
\* lines 111-151 over the whole file
FileRecords(lines, created_at, chans) ==
    IF lines = <<>> THEN <<>>
    ELSE LineRecords(Head(lines), created_at, chans)
         \o FileRecords(Tail(lines), created_at, chans)

\* lines 106-172, when strptime does not raise
parse_emotibit_csv(lines, created_at, chans) ==
    Pivot(FileRecords(lines, created_at, chans), chans)

(***************************************************************************)
(* 3. YQ writer: write_yq_folder                                           *)
(***************************************************************************)
README_TXT == <<"R", "E", "A", "D", "M", "E", ".", "t", "x", "t">>
METADATA_CSV == <<"m", "e", "t", "a", "d", "a", "t", "a">> \o CSV
DEVICE_CSV == <<"_", "d", "e", "v", "i", "c", "e">> \o CSV

\* lines 182-183
device_csv_name(meta) == ReplaceChar(Lower(meta.device_id), " ", "_") \o DEVICE_CSV

\* median of the consecutive differences of the index, doubled (line 203-204)
TwiceMedianDiff(table) ==
    LET n == Len(table.rows) - 1
        ds == [k \in 1..n |-> table.rows[k + 1].timestamp - table.rows[k].timestamp]
        below(x) == Cardinality({k \in 1..n : ds[k] < x})
        upto(x) == Cardinality({k \in 1..n : ds[k] <= x})
        at(pos) == CHOOSE x \in {ds[k] : k \in 1..n} : below(x) < pos /\ pos <= upto(x)
    IN  IF n % 2 = 1 THEN 2 * at((n + 1) \div 2)
        ELSE at(n \div 2) + at(n \div 2 + 1)

\* round(x / y) for positive x, y: Python rounds halves to the even neighbour
RoundDiv(x, y) ==
    LET q == x \div y
        r == x % y
    IN  IF 2 * r < y THEN q
        ELSE IF 2 * r > y THEN q + 1
        ELSE IF q % 2 = 0 THEN q ELSE q + 1

\* lines 201-205: Time is kept in milliseconds, so 1 / median is 2000 / (2 median)
sampling_rate_guess(table) ==
    IF Len(table.rows) > 1 /\ TwiceMedianDiff(table) > 0
    THEN RoundDiv(2000, TwiceMedianDiff(table))
    ELSE 0

\* os.path.join(dir, name): joining "" names the directory itself
Join(dir, name) == IF name = <<>> THEN dir ELSE Append(dir, name)

\* lines 196-219: the three files written into out_dir, path -> content
write_yq_folder(out_dir, table, meta) ==
    (Append(out_dir, README_TXT) :> [readme_lists |-> device_csv_name(meta)])
    @@ (Append(out_dir, device_csv_name(meta)) :> table)
    @@ (Append(out_dir, METADATA_CSV) :>
            [file_name |-> device_csv_name(meta),
             device_id |-> meta.device_id,
             device_name |-> meta.device_name,
             sampling_rate |-> sampling_rate_guess(table)])

(***************************************************************************)
(* 5. ZIP helper: zip_directory                                            *)
(***************************************************************************)
\* line 268: os.path.relpath(full_path, src_dir)
RelPath(path, src_dir) == SubSeq(path, Len(src_dir) + 1, Len(path))

\* lines 262-271: every file below src_dir, stored under its relative path
zip_directory(files, src_dir) ==
    [rel \in {RelPath(q, src_dir) : q \in DOMAIN files} |->
        files[CHOOSE q \in DOMAIN files : RelPath(q, src_dir) = rel]]

(***************************************************************************)
(* What the files of the archive hold.                                     *)
(***************************************************************************)
TAG_A == <<"A">>
TAG_B == <<"B">>
TAG_A_B == <<"A", "_", "B">>
X == <<"x">>
V01 == <<"0", ".", "1">>
V02 == <<"0", ".", "2">>
T1000 == <<"1", "0", "0", "0">>
T1040 == <<"1", "0", "4", "0">>

\* "system_ms,x,n_samples,tag,x,x,v0,v1,..."
MkLine(ts, n, tag, vals) == <<ts, X, n, tag, X, X>> \o vals

Device(name, source_id, type, dev_id, created_at) ==
    [name |-> name, source_id |-> source_id, type |-> type,
     device_id |-> dev_id, created_at |-> created_at]

Stream(name, type, tags, srate) ==
    [name |-> name, type |-> type, typeTags |-> tags, nominal_srate |-> srate]

\* device "E a" without ids; stream X with tag A at 25 Hz, Y with tag B at 15 Hz
DOC_A ==
    <<Device(Some(<<"E", " ", "a">>), None, None, None, None),
      Stream(Some(<<"X">>), None, <<TAG_A>>, Rate(25)),
      Stream(Some(<<"Y">>), None, <<TAG_B>>, Rate(15))>>

\* explicit device id, a recording start, one stream with two tags, no rate
DOC_B ==
    <<Device(None, Some(<<"S">>), None, Some(<<"E", "b">>), Some(CREATED_AT)),
      Stream(Some(<<"X", " ", "Y">>), None, <<TAG_A, TAG_B>>, NoRate)>>

\* the empty array
DOC_EMPTY == <<>>

ReadJson(f) ==
    CASE f = J_d_info -> DOC_A
      [] f = J_d_INFO1 -> DOC_B
      [] f = J_info -> DOC_A
      [] f = J_dcsv_info -> DOC_B
      [] f = J_d_info2 -> DOC_EMPTY
      [] OTHER -> DOC_EMPTY

ReadCsv(f) ==
    CASE f = M_d -> <<MkLine(T1000, <<"2">>, TAG_A, <<V01, V02>>)>>
      [] f = M_d_1 -> <<MkLine(T1000, <<"1">>, TAG_A, <<V02>>)>>
      [] f = M_d_2 -> <<MkLine(T1040, <<"1">>, TAG_B, <<V01>>),
                        MkLine(T1000, <<"1">>, TAG_B, <<V02>>)>>
      [] OTHER -> <<>>

(***************************************************************************)
(* MAIN LOGIC, lines 297-349                                               *)
(***************************************************************************)
TMPDIR == <<"tmpdir">>
IN_ZIP == <<"tmpdir", "input.zip">>
EXTRACT_DIR == <<"tmpdir", "extracted">>
YQ_OUT == <<"tmpdir", "YQ_out">>

NoFiles == [q \in {} |-> 0]
NoZip == [offered |-> FALSE, entries |-> NoFiles]

\* line 301: leaving the `with tempfile.TemporaryDirectory()` block, on return
\* and on an exception alike, removes tmpdir and everything below it
KeepTmp(storage) == storage
ExitTmp(storage) == {q \in storage : ~StartsWith(q, TMPDIR)}

\* lines 329-331: the session's metadata or recording start cannot be read
SessionRaises(sess) ==
    IF JsonRaises(ReadJson(sess.json)) THEN TRUE
    ELSE CsvRaises(device_meta(ReadJson(sess.json)).raw.created_at)

\* lines 329-335: the files one session writes
SessionFiles(sess) ==
    LET data == ReadJson(sess.json)
        meta == device_meta(data)
        table == parse_emotibit_csv(ReadCsv(sess.csv), meta.raw.created_at, channels(data))
    IN  write_yq_folder(Join(YQ_OUT, sess.name), table, meta)

\* lines 301-304
Upload ==
    /\ pc = "idle"
    /\ pc' = "saved"
    /\ tmp' = tmp \cup {TMPDIR, IN_ZIP}
    /\ ui' = Append(ui, "received")
    /\ UNCHANGED <<walk, sessions, i, parsed, out, final_zip, csvVars, runVars>>

\* lines 306-318
Extract ==
    /\ pc = "saved"
    /\ pc' = "extracted"
    /\ tmp' = tmp \cup {EXTRACT_DIR}
                  \cup {Append(Join(EXTRACT_DIR, walk[k].root), walk[k].name) : k \in 1..Len(walk)}
    /\ ui' = Append(ui, "files")
    /\ UNCHANGED <<walk, sessions, i, parsed, out, final_zip, csvVars, runVars>>

\* line 320
Match ==
    /\ pc = "extracted"
    /\ pc' = "matched"
    /\ sessions' = find_emotibit_sessions(walk)
    /\ UNCHANGED <<walk, tmp, i, parsed, out, final_zip, ui, csvVars, runVars>>

\* the run without the `if not sessions` test: an empty archive is offered
NoPairOffersZip ==
    /\ pc = "matched"
    /\ sessions = <<>>
    /\ pc' = "done"
    /\ final_zip' = [offered |-> TRUE, entries |-> NoFiles]
    /\ ui' = ui \o <<"success", "download">>
    /\ tmp' = ExitTmp(tmp \cup {YQ_OUT})
    /\ UNCHANGED <<walk, sessions, i, parsed, out, csvVars, runVars>>

\* lines 322-323, then the end of the with block
NoPair ==
    /\ pc = "matched"
    /\ sessions = <<>>
    /\ pc' = "done"
    /\ ui' = Append(ui, "no_pair")
    /\ tmp' = ExitTmp(tmp)
    /\ UNCHANGED <<walk, sessions, i, parsed, out, final_zip, csvVars, runVars>>

\* lines 324-326
MakeOutDir ==
    /\ pc = "matched"
    /\ sessions # <<>>
    /\ pc' = "loop"
    /\ tmp' = tmp \cup {YQ_OUT}
    /\ UNCHANGED <<walk, sessions, i, parsed, out, final_zip, ui, csvVars, runVars>>

\* lines 328-335: one iteration of the for loop that completes
ConvertSession ==
    /\ pc = "loop"
    /\ i < Len(sessions)
    /\ ~SessionRaises(sessions[i + 1])
    /\ parsed' = Append(parsed, sessions[i + 1].json)
    /\ out' = SessionFiles(sessions[i + 1]) @@ out
    /\ tmp' = tmp \cup {Join(YQ_OUT, sessions[i + 1].name)}
                  \cup DOMAIN SessionFiles(sessions[i + 1])
    /\ i' = i + 1
    /\ UNCHANGED <<pc, walk, sessions, final_zip, ui, csvVars, runVars>>

\* a failing iteration that is skipped, the loop going on with the next
ConvertSkips ==
    /\ pc = "loop"
    /\ i < Len(sessions)
    /\ SessionRaises(sessions[i + 1])
    /\ parsed' = Append(parsed, sessions[i + 1].json)
    /\ i' = i + 1
    /\ UNCHANGED <<pc, walk, tmp, sessions, out, final_zip, ui, csvVars, runVars>>

\* lines 329-331 raise: the with block is left, lines 347-349 report
ConvertRaises ==
    /\ pc = "loop"
    /\ i < Len(sessions)
    /\ SessionRaises(sessions[i + 1])
    /\ parsed' = Append(parsed, sessions[i + 1].json)
    /\ pc' = "done"
    /\ tmp' = ExitTmp(tmp)
    /\ ui' = Append(ui, "error")
    /\ UNCHANGED <<walk, sessions, i, out, final_zip, csvVars, runVars>>

\* lines 337-345, then the end of the with block
ZipAndOffer ==
    /\ pc = "loop"
    /\ i = Len(sessions)
    /\ pc' = "done"
    /\ final_zip' = [offered |-> TRUE, entries |-> zip_directory(out, YQ_OUT)]
    /\ ui' = ui \o <<"success", "download">>
    /\ tmp' = ExitTmp(tmp)
    /\ UNCHANGED <<walk, sessions, i, parsed, out, csvVars, runVars>>

\* an OSError / BadZipFile while extracting, creating YQ_out, reading or
\* writing a session, or zipping: the with block is left, lines 347-349 report
IOFails ==
    /\ \/ pc = "saved"
       \/ pc = "matched" /\ sessions # <<>>
       \/ pc = "loop"
    /\ pc' = "done"
    /\ tmp' = ExitTmp(tmp)
    /\ ui' = Append(ui, "error")
    /\ UNCHANGED <<walk, sessions, i, parsed, out, final_zip, csvVars, runVars>>

NoDf == [status |-> "none", table |-> <<>>]

CsvIdle ==
    /\ doc = <<>> /\ line = <<>> /\ emitted = <<>> /\ records = <<>>
    /\ used = 0 /\ df = NoDf

NotRun == [ran |-> FALSE, status |-> "none", entries |-> NoFiles]

RunsIdle == walk2 = <<>> /\ result1 = NotRun /\ result2 = NotRun

Init ==
    /\ pc = "idle"
    /\ walk \in Walks
    /\ tmp = {}
    /\ sessions = <<>>
    /\ i = 0
    /\ parsed = <<>>
    /\ out = NoFiles
    /\ final_zip = NoZip
    /\ ui = <<>>
    /\ CsvIdle
    /\ RunsIdle

Next ==
    \/ Upload
    \/ Extract
    \/ Match
    \/ NoPair
    \/ MakeOutDir
    \/ ConvertSession
    \/ ConvertRaises
    \/ ZipAndOffer
    \/ IOFails

Spec == Init /\ [][Next]_vars

(***************************************************************************)
(* Properties of the main logic and the matcher (specification Spec).      *)
(***************************************************************************)
Range(f) == {f[k] : k \in DOMAIN f}

\* the base key as the specification words it: the file name cut at the marker
NameCutAtInfo(f) == SubSeq(f.name, 1, Find(Lower(f.name), INFO))

MeasurementCandidates == {f \in Range(walk) : IsCsvCandidate(f)}
MetadataCandidates == {f \in Range(walk) : IsJsonCandidate(f)}

SessionsOf(j) == {k \in 1..Len(sessions) : sessions[k].json = j}

\* the session of metadata file j pairs it with a shortest member of M,
\* and there is no session for j when M is empty
PairsWithShortest(j, M) ==
    IF M = {} THEN SessionsOf(j) = {}
    ELSE /\ Cardinality(SessionsOf(j)) = 1
         /\ \A k \in SessionsOf(j) :
              /\ sessions[k].csv \in M
              /\ sessions[k].name = NameCutAtInfo(j)
              /\ \A c \in M : Len(sessions[k].csv.name) <= Len(c.name)

C2_NoPairNoOutput ==
    /\ (pc \in {"matched", "done"} /\ sessions = <<>>) =>
          /\ parsed = <<>>
          /\ out = NoFiles
          /\ \A q \in tmp : ~StartsWith(q, YQ_OUT)
          /\ ~final_zip.offered
          /\ "download" \notin Range(ui)
          /\ "success" \notin Range(ui)
    /\ (pc = "done" /\ sessions = <<>> /\ "files" \in Range(ui)) =>
          ui = <<"received", "files", "no_pair">>

\* an archive that holds a metadata candidate but no pair ended that way
C2_Witness ==
    /\ pc = "done"
    /\ MetadataCandidates # {}
    /\ sessions = <<>>
    /\ ui = <<"received", "files", "no_pair">>

\* C3: a session whose metadata cannot be loaded is the last one touched: the
\* run is over, the error is the last thing reported, and no archive is
\* offered, whatever was converted before.
C3_FailureAbortsBatch ==
    /\ \A k \in 1..Len(parsed) :
         SessionRaises([json |-> parsed[k]]) =>
            /\ k = Len(parsed)
            /\ i = k - 1
            /\ pc = "done"
            /\ ui[Len(ui)] = "error"
    /\ "error" \in Range(ui) =>
            /\ pc = "done"
            /\ ~final_zip.offered
            /\ "download" \notin Range(ui)
            /\ "success" \notin Range(ui)

\* the second session fails on an empty array after the first was written
C3_Witness ==
    /\ pc = "done"
    /\ i = 1
    /\ Len(parsed) = 2
    /\ JsonRaises(ReadJson(parsed[2]))
    /\ out # NoFiles
    /\ ui[Len(ui)] = "error"

\* C4: once the request has ended, nothing of its working storage exists.
C4_StorageReleased == pc = "done" => tmp = {}

\* a run that failed after a session folder had been written
C4_Witness ==
    /\ pc = "done"
    /\ "error" \in Range(ui)
    /\ out # NoFiles
    /\ tmp = {}

\* session sub-directories of the offered archive
ZipSubdirs == {q[1] : q \in {e \in DOMAIN final_zip.entries : Len(e) = 2}}

\* C5 (as stated): the offered archive holds as many session sub-directories
\* as the matcher returned sessions.
C5_OneSubdirPerSession ==
    (pc = "done" /\ final_zip.offered) => Cardinality(ZipSubdirs) = Len(sessions)

(***************************************************************************)
(* The reshaper on its own: parse_emotibit_csv fed a metadata document and *)
(* measurement lines drawn from small alphabets.                           *)
(***************************************************************************)
\* two tags whose labels coincide: "X" + "_" + "A_B" and "X_A" + "_" + "B"
DOC_COLLIDE ==
    <<Device(Some(<<"E">>), None, None, None, Some(<<>>)),
      Stream(Some(<<"X">>), None, <<TAG_A_B>>, Rate(0)),
      Stream(Some(<<"X", "_", "A">>), None, <<TAG_B>>, Rate(25))>>

\* tag A declared by two streams, the second named by its type only
DOC_DUP ==
    <<Device(None, None, Some(<<"E">>), None, None),
      Stream(Some(<<"X">>), None, <<TAG_A>>, Rate(25)),
      Stream(None, Some(<<"Y">>), <<TAG_A>>, Rate(15))>>

\* a recording start that strptime rejects
DOC_BADTIME ==
    <<Device(Some(<<"E">>), None, None, None, Some(CREATED_BAD)),
      Stream(Some(<<"X">>), None, <<TAG_A>>, Rate(25))>>

CsvDocs == {DOC_A, DOC_B, DOC_COLLIDE, DOC_DUP, DOC_BADTIME}

TsFields == {T1000, T1040, X}
NFields == {<<"-", "1">>, <<"0">>, <<"1">>, <<"2">>, X}
TagFields == {TAG_A, TAG_B, TAG_A_B}
ValFields == {V01, V02, X}

ValLists(n) == UNION {[1..k -> ValFields] : k \in 0..n}

\* lines with at most n sample fields; one without any has only six fields
Lines(n) ==
    {MkLine(ts, ns, tag, vals) :
        ts \in TsFields, ns \in NFields, tag \in TagFields, vals \in ValLists(n)}

Min(a, b) == IF a < b THEN a ELSE b

\* what a line takes of the file's budget of sample fields
Cost(parts) == IF Len(parts) > 6 THEN Len(parts) - 6 ELSE 1

created_at_of(data) == device_meta(data).raw.created_at

\* lines 108-109 raise ValueError
StrptimeFails ==
    /\ df.status = "none"
    /\ doc # <<>>
    /\ records = <<>>
    /\ CsvRaises(created_at_of(doc))
    /\ df' = [status |-> "raised", table |-> <<>>]
    /\ UNCHANGED <<doc, line, emitted, records, used, mainVars, runVars>>

\* lines 113-151: the next line of a file of several lines
ReadLine ==
    /\ df.status = "none"
    /\ doc # <<>>
    /\ ~CsvRaises(created_at_of(doc))
    /\ used < MaxFields
    /\ \E parts \in Lines(Min(MaxVals, MaxFields - used)) :
         /\ records' = records \o LineRecords(parts, created_at_of(doc), channels(doc))
         /\ used' = used + Cost(parts)
    /\ UNCHANGED <<doc, line, emitted, df, mainVars, runVars>>

\* lines 153-172: end of file
Return ==
    /\ df.status = "none"
    /\ doc # <<>>
    /\ ~CsvRaises(created_at_of(doc))
    /\ df' = [status |-> "returned", table |-> Pivot(records, channels(doc))]
    /\ UNCHANGED <<doc, line, emitted, records, used, mainVars, runVars>>

MainIdle ==
    /\ pc = "idle" /\ walk = <<>> /\ tmp = {} /\ sessions = <<>> /\ i = 0
    /\ parsed = <<>> /\ out = NoFiles /\ final_zip = NoZip /\ ui = <<>>

InitCsv ==
    /\ doc \in CsvDocs
    /\ line = <<>>
    /\ emitted = <<>>
    /\ records = <<>>
    /\ used = 0
    /\ df = NoDf
    /\ MainIdle
    /\ RunsIdle

NextCsv ==
    \/ StrptimeFails
    \/ ReadLine
    \/ Return

SpecCsv == InitCsv /\ [][NextCsv]_vars

\* lines 117-151 for the one line of a one-line file
ParseLine ==
    /\ df.status = "none"
    /\ used = 0
    /\ line # <<>>
    /\ ~CsvRaises(created_at_of(doc))
    /\ emitted' = LineRecords(line, created_at_of(doc), channels(doc))
    /\ records' = emitted'
    /\ used' = Cost(line)
    /\ UNCHANGED <<doc, line, df, mainVars, runVars>>

InitLine ==
    /\ doc \in CsvDocs
    /\ line \in Lines(MaxVals)
    /\ emitted = <<>>
    /\ records = <<>>
    /\ used = 0
    /\ df = NoDf
    /\ MainIdle
    /\ RunsIdle

NextLine ==
    \/ ParseLine
    \/ StrptimeFails

SpecLine == InitLine /\ [][NextLine]_vars

(***************************************************************************)
(* Properties of one measurement line (specification SpecLine).            *)
(***************************************************************************)
ValuesOf(parts) == SubSeq(parts, 7, Len(parts))

\* 0-based positions, in the value list, of the values float() accepts
NumericPositions(parts) ==
    {p \in 0..(Len(ValuesOf(parts)) - 1) : IsFloat(ValuesOf(parts)[p + 1])}

\* Records are emitted in the order of the values and the values kept are a
\* prefix of the list, so the k-th record stems from the k-th numeric value.
PositionOf(parts, k) ==
    CHOOSE p \in NumericPositions(parts) :
        Cardinality({m \in NumericPositions(parts) : m < p}) = k - 1

\* C6 (as stated): whatever integer field [2] declares, no Long Record stems
\* from a value at a position at or beyond it.
C6_NoRecordBeyondCount ==
    (used > 0 /\ IsInt(line[3])) =>
        \A k \in 1..Len(emitted) : PositionOf(line, k) < IntOf(line[3])

\* the rate the claim names: the declared one when present and nonzero, else 25
ClaimedRate(tag) ==
    LET sr == channels(doc)[tag].nominal_srate
    IN  IF sr.some /\ sr.v # 0 THEN sr.v ELSE 25

EXAMPLE_LINE == MkLine(T1000, <<"2">>, TAG_A, <<V01, V02>>)

Timestamps == {records[k].timestamp : k \in 1..Len(records)}
UsedTags == {records[k].tag : k \in 1..Len(records)} \cap DOMAIN channels(doc)

\* the stream that declares the tag last
LastStream(tag) ==
    LET at == {k \in 2..Len(doc) : tag \in Range(doc[k].typeTags)}
    IN  doc[CHOOSE k \in at : \A m \in at : m <= k]

\* stream name, "_", tag, blanks stripped
ExpectedLabel(tag) ==
    LET info == LastStream(tag)
        name == IF info.name.some THEN info.name.v
                ELSE IF info.type.some THEN info.type.v ELSE CHANNEL
    IN  Remove(name \o <<"_">> \o tag, " ")

TagColumns == SubSeq(df.table.columns, 3, Len(df.table.columns))
ColumnsNamed(label) == {c \in 1..Len(TagColumns) : TagColumns[c] = label}

SameCell(k) == {m \in 1..Len(records) :
                   /\ records[m].timestamp = records[k].timestamp
                   /\ records[m].tag = records[k].tag}

RECURSIVE SumOver(_)
SumOver(S) ==
    IF S = {} THEN 0
    ELSE LET m == CHOOSE x \in S : TRUE IN records[m].value + SumOver(S \ {m})

RECURSIVE AllSessionFiles(_)
\* lines 328-335 without a failure: later sessions overwrite earlier files
AllSessionFiles(ss) ==
    IF ss = <<>> THEN NoFiles
    ELSE SessionFiles(ss[Len(ss)]) @@ AllSessionFiles(SubSeq(ss, 1, Len(ss) - 1))

\* lines 320-345 as a function of the enumeration order
RunConversion(w) ==
    LET ss == find_emotibit_sessions(w)
    IN  IF ss = <<>>
        THEN [ran |-> TRUE, status |-> "no_pair", entries |-> NoFiles]
        ELSE IF \E k \in 1..Len(ss) : SessionRaises(ss[k])
        THEN [ran |-> TRUE, status |-> "error", entries |-> NoFiles]
        ELSE [ran |-> TRUE, status |-> "ok",
              entries |-> zip_directory(AllSessionFiles(ss), YQ_OUT)]

FirstRun ==
    /\ ~result1.ran
    /\ result1' = RunConversion(walk)
    /\ UNCHANGED <<walk, walk2, result2, pc, tmp, sessions, i, parsed, out,
                   final_zip, ui, csvVars>>

SecondRun ==
    /\ ~result2.ran
    /\ result2' = RunConversion(walk2)
    /\ UNCHANGED <<walk, walk2, result1, pc, tmp, sessions, i, parsed, out,
                   final_zip, ui, csvVars>>

InitRuns ==
    /\ walk \in Walks
    /\ walk2 \in {w \in Walks : Len(w) = Len(walk) /\ Range(w) = Range(walk)}
    /\ result1 = NotRun
    /\ result2 = NotRun
    /\ pc = "idle" /\ tmp = {} /\ sessions = <<>> /\ i = 0
    /\ parsed = <<>> /\ out = NoFiles /\ final_zip = NoZip /\ ui = <<>>
    /\ CsvIdle

NextRuns ==
    \/ FirstRun
    \/ SecondRun

SpecRuns == InitRuns /\ [][NextRuns]_vars

\* C10 (as stated): two runs on the same archive end alike, with the same
\* entry paths and contents, however the files were enumerated.
C10_SameOutput ==
    (result1.ran /\ result2.ran) => result1 = result2

====
